---- MODULE Spec2Model ----
(***************************************************************************)
(* Pine: a single-node process supervisor.  The model covers the config    *)
(* loader (pkg/tree/config.go), the per-service run loop                    *)
(* (pkg/tree/tree.go) and the daemon that owns the registry, the directory  *)
(* watcher and the control plane (pkg/pine/daemon.go).                      *)
(***************************************************************************)
EXTENDS Integers, Sequences, FiniteSets, TLC

\* -------------------------------------------------------------------------
\* Bounds
\* -------------------------------------------------------------------------
\* invocations of TreeImpl.Start that have not returned, at any one time
MaxLoops == 2
\* TreeImpl objects admitted to the registry in one behaviour
MaxTrees == 2
\* value at which run_count and the spawn counter saturate; it is
\* larger than every RestartAttempts value of ContentTable, so that the
\* comparisons of the code cannot tell a saturated value from the real one
MaxCount == 3
\* file-system operations of the environment in one behaviour
MaxFsOps == 1
\* control-plane requests in one behaviour
MaxRequests == 1
\* Start calls the daemon has running at a time on one TreeImpl
MaxStarts == 1
\* passes of the midnight rotation task in one behaviour
MaxMidnights == 1
\* rewrites of a config file by an editor that saves repeatedly
MaxWrites == 2

\* ticks of the clock while a log sink is observed
MaxClock == 3

\* ticks before the observation at which a rotated log file may have been made
MaxPast == 3

LoopIds == 1..MaxLoops
TreeIds == 1..MaxTrees

\* -------------------------------------------------------------------------
\* Config loader (pkg/tree/config.go)
\* -------------------------------------------------------------------------
NeverRestart == "never"
AlwaysRestart == "always"
LimitedRestart == "limited"

Files == {"a.tree", "b.tree"}

\* filepath.Base without filepath.Ext, for the files of the model
Stem(f) == IF f = "a.tree" THEN "a" ELSE "b"

\* strconv.Atoi on the numerals that occur in ContentTable; a string outside
\* the table is not a number
AtoiTable == [n \in {"-1", "0", "1", "2", "3", "7"} |->
                CASE n = "-1" -> 0 - 1
                  [] n = "0" -> 0
                  [] n = "1" -> 1
                  [] n = "2" -> 2
                  [] n = "3" -> 3
                  [] n = "7" -> 7]

AtoiOk(s) == s \in DOMAIN AtoiTable

Atoi(s) == AtoiTable[s]

\* A file is a sequence of lines.  A line is <<key, value>>; <<"#">> is a
\* comment line and any other one-element line has no space in it.
ContentTable == <<
    << <<"Name", "A">>, <<"Command", "sleep 300">> >>,
    << <<"Name", "A">>, <<"Command", "sleep 1">>, <<"Restart", "always">> >>,
    << <<"Name", "A">>, <<"Command", "sleep 1">>, <<"Restart", "limited">>,
       <<"RestartAttempts", "2">> >>,
    << <<"Name", "A">>, <<"Command", "sleep 1">>, <<"Restart", "limited">>,
       <<"RestartAttempts", "0">> >>,
    << <<"Name", "A">>, <<"Command", "sleep 1">>, <<"Restart", "limited">>,
       <<"RestartAttempts", "-1">> >>,
    << <<"#">>, <<"Command", "sleep 300">>, <<"Restart", "always">> >>,
    << <<"Name", "A">>, <<"Restart", "always">> >>,
    << <<"Name", "A">>, <<"Command", "sleep 1">>, <<"Restart", "limited">>,
       <<"RestartAttempts", "1">> >>,
    << <<"Name", "A">>, <<"Command", "sleep infinity">>, <<"User", "myuser">> >>,
    << <<"Name", "A">>, <<"User", "myuser">>, <<"Command", "sleep infinity">> >>,
    << <<"User", "myuser">>, <<"Name", "A">>, <<"Command", "sleep infinity">> >>,
    << <<"Name", "A">>, <<"User", "myuser">> >>
>>

Contents == 1..Len(ContentTable)

\* 0 stands for a path with no file
NoFile == 0

\* Config{...} literal of LoadConfig with its defaults
DefaultConfig(filename) ==
    [Name |-> "", OriginFile |-> filename, Command |-> "", User |-> "op",
     EnvironmentFile |-> "", LogFile |-> "", MaxLogAge |-> 7,
     Restart |-> NeverRestart, RestartAttempts |-> 3, RestartDelay |-> "3s"]

\* the switch on the parameter name, for one key/value line
ApplyLine(cfg, param, value) ==
    CASE param = "Name" -> [err |-> FALSE, cfg |-> [cfg EXCEPT !.Name = value]]
      [] param = "Command" -> [err |-> FALSE, cfg |-> [cfg EXCEPT !.Command = value]]
      [] param = "User" -> [err |-> FALSE, cfg |-> [cfg EXCEPT !.Command = value]]
      [] param = "EnvironmentFile" ->
            [err |-> FALSE, cfg |-> [cfg EXCEPT !.EnvironmentFile = value]]
      [] param = "LogFile" -> [err |-> FALSE, cfg |-> [cfg EXCEPT !.LogFile = value]]
      [] param = "MaxLogAge" ->
            IF AtoiOk(value)
            THEN [err |-> FALSE, cfg |-> [cfg EXCEPT !.MaxLogAge = Atoi(value)]]
            ELSE [err |-> TRUE, cfg |-> cfg]
      [] param = "Restart" ->
            IF value \in {AlwaysRestart, NeverRestart, LimitedRestart}
            THEN [err |-> FALSE, cfg |-> [cfg EXCEPT !.Restart = value]]
            ELSE [err |-> TRUE, cfg |-> cfg]
      [] param = "RestartAttempts" ->
            IF AtoiOk(value)
            THEN [err |-> FALSE, cfg |-> [cfg EXCEPT !.RestartAttempts = Atoi(value)]]
            ELSE [err |-> TRUE, cfg |-> cfg]
      [] param = "RestartDelay" ->
            [err |-> FALSE, cfg |-> [cfg EXCEPT !.RestartDelay = value]]
      [] OTHER -> [err |-> TRUE, cfg |-> cfg]

\* the scanner loop of LoadConfig from line i on
RECURSIVE ParseLines(_, _, _)
ParseLines(cfg, lines, i) ==
    IF i > Len(lines) THEN [err |-> FALSE, cfg |-> cfg]
    ELSE LET line == lines[i] IN
         IF Len(line) = 1
         THEN IF line[1] = "#" THEN ParseLines(cfg, lines, i + 1)
              ELSE [err |-> TRUE, cfg |-> cfg]
         ELSE LET r == ApplyLine(cfg, line[1], line[2]) IN
              IF r.err THEN r ELSE ParseLines(r.cfg, lines, i + 1)

ValidateConfig(cfg) ==
    IF cfg.OriginFile = "" THEN [err |-> TRUE, cfg |-> cfg]
    ELSE IF cfg.Command = "" THEN [err |-> TRUE, cfg |-> cfg]
    ELSE LET named == IF cfg.Name = "" THEN [cfg EXCEPT !.Name = Stem(cfg.OriginFile)]
                      ELSE cfg
             logged == IF named.LogFile = ""
                       THEN [named EXCEPT !.LogFile = named.Name]
                       ELSE named
         IN  IF logged.MaxLogAge < 1 THEN [err |-> TRUE, cfg |-> logged]
             ELSE [err |-> FALSE, cfg |-> logged]

\* LoadConfig(filename) when the directory is fs: os.Open fails on a path
\* with no file
LoadConfig(fs, filename) ==
    IF fs[filename] = NoFile THEN [err |-> TRUE, cfg |-> DefaultConfig(filename)]
    ELSE LET r == ParseLines(DefaultConfig(filename), ContentTable[fs[filename]], 1) IN
         IF r.err THEN r ELSE ValidateConfig(r.cfg)


\* -------------------------------------------------------------------------
\* State
\* -------------------------------------------------------------------------
VARIABLES
    files,            \* config directory: file -> index in ContentTable, or NoFile
    config,           \* TreeImpl.config
    configWriter,     \* TreeImpl.configMu is held by a writer (Reload)
    stopChan,         \* TreeImpl.stopChan: number of buffered values (capacity 1)
    chanClosed,       \* TreeImpl.stopChan has been closed (Destroy)
    fullStop,         \* TreeImpl.fullStop
    runCount,         \* TreeImpl.runCount
    currState,        \* TreeImpl.currState
    stampCurrent,     \* TreeImpl.lastChangedAt is the time currState last changed
    loopTree,         \* the TreeImpl a Start invocation runs on (0: unused)
    pc,               \* position of a Start invocation
    restartMode,      \* Start's local restartMode
    restartAttempts,  \* Start's local restartAttempts
    iterCancelled,    \* cancel() of the iteration's context has been called
    rpc,              \* position of the iteration's run goroutine
    snap,             \* Start's locals cmd, envFile, user, logFile, maxLogAge
    spawns,           \* children started on the TreeImpl since a Start call found it idle
    prepFailed,       \* some run of the invocation failed before execCmd.Run
    signalled,        \* Stop, Restart or Reload has been called on the TreeImpl
    idleSignal,       \* the value in stopChan was sent while no child was alive
    stopPending,      \* Stop was called after a Start call, and no Start call since
    reloadPending,    \* a Reload found a child running, and no child was started since
    ctxDone,          \* the context handed to Start / Daemon.Run is cancelled
    panicked,         \* the process has died of a run-time panic
    fsOps,            \* file-system operations so far
    trees,            \* Daemon.trees: name -> TreeImpl (0: no entry)
    nTrees,           \* TreeImpl objects admitted so far
    readers,          \* read locks held on Daemon.treeLock and not released
    rotHeld,          \* read locks the rotation task holds through its defers
    midnights,        \* midnight timers fired so far
    runPc,            \* position of Daemon.Run
    bootList,         \* files of the Glob in findTrees not yet loaded
    httpPc,           \* control-plane server task
    rotPc,            \* midnight rotation task
    wPc,              \* directory watcher task
    wFile,            \* file of the event the watcher is handling
    events,           \* fsnotify events not yet received by the watcher
    updateQueue,      \* files f with updateQueue[f] = true
    batch,            \* write events received since the last flush, and by the last flush
    reqs,             \* control-plane requests so far
    lastCall,         \* the latest control-plane request and its result
    logClock,         \* time.Now(), in ticks
    zone,             \* offset of the local time zone from UTC, in ticks
    logActive,        \* the file at the log path: "none", "empty" or "data"
    logSiblings,      \* the files <path>.<stamp>: stamp -> "none", "empty" or "data"
    sinkPc,           \* the iteration's RotatingFileWriter: "none", "live" or "closed"
    sinkFile,         \* RotatingFileWriter.file: "nil", "open" or "closed"
    sinkOnPath,       \* RotatingFileWriter.file is the file at the log path
    handles,          \* open file handles that the RotatingFileWriter opened
    rot,              \* position of a Rotate call
    rotated           \* what the latest Rotate call returned: "none", "ok" or "err"

treeVars == <<config, configWriter, stopChan, chanClosed, fullStop, runCount, currState, stampCurrent>>

loopVars == <<loopTree, pc, restartMode, restartAttempts, iterCancelled,
              rpc, snap, spawns>>

ghostVars == <<prepFailed, signalled, idleSignal, stopPending, reloadPending>>

daemonVars == <<trees, nTrees, readers, rotHeld, midnights, runPc, bootList, httpPc,
                rotPc, wPc, wFile, events, updateQueue, batch, reqs, lastCall>>

logVars == <<logClock, zone, logActive, logSiblings, sinkPc, sinkFile, sinkOnPath,
             handles, rot, rotated>>

vars == <<files, treeVars, loopVars, ghostVars, ctxDone, panicked, fsOps, daemonVars,
          logVars>>

Names == {"A", "a", "b"}

StoppedState == "stopped"
RestartingState == "restarting"
RunningState == "running"

Min(a, b) == IF a < b THEN a ELSE b

\* t.currState = s under stateMu; no assignment of the run loop touches
\* t.lastChangedAt, which keeps the time NewTree gave it
SetState(t, s) ==
    /\ currState' = [currState EXCEPT ![t] = s]
    /\ stampCurrent' = [stampCurrent EXCEPT ![t] = @ /\ currState[t] = s]

\* the Start invocations on TreeImpl t that have entered Start and not returned
RunningLoops(t) == {l \in LoopIds : loopTree[l] = t /\ pc[l] \notin {"none", "new", "done"}}

\* the Start invocations on t whose goroutine exists and has not returned
LiveLoops(t) == {l \in LoopIds : loopTree[l] = t /\ pc[l] \notin {"none", "done"}}

\* the Start invocations on t whose child process is alive
LiveChildren(t) == {l \in LoopIds : loopTree[l] = t /\ rpc[l] = "child"}

\* ctx.Done() of the iteration's context: its own cancel, or the parent's
IterDone(l) == iterCancelled[l] \/ ctxDone

\* -------------------------------------------------------------------------
\* Log file names and retention (pkg/tree/logger.go)
\* -------------------------------------------------------------------------
\* ticks in 24 hours
DayLength == 2

\* the maxAge handed to NewRotatingFileWriter, in days
SinkMaxLogAge == 1

\* time.Duration(maxAge*24) * time.Hour
MaxAgeDur == SinkMaxLogAge * DayLength

\* offsets of the local zone: west of UTC, UTC, east of UTC
Zones == {0 - 1, 0, 1}

\* the timestamps a file name can carry
Stamps == (0 - MaxPast - 1)..(MaxClock + 1)

\* time.Now().Format(logFileTimestampLayout): the wall clock of the local zone
FormatStamp(now) == now + zone

\* time.Parse(logFileTimestampLayout, stamp): the layout has no zone, and Parse
\* reads the stamp as a time in UTC
ParseStamp(stamp) == stamp

\* the instant at which the local wall clock showed the stamp
StampInstant(stamp) == stamp - zone

\* removeOldFiles: zero-size files go, and files whose parsed stamp plus
\* maxAge is before now
RemoveOldFiles(sib, now) ==
    [l \in Stamps |->
        IF sib[l] = "empty" THEN "none"
        ELSE IF sib[l] = "data" /\ ParseStamp(l) + MaxAgeDur < now THEN "none"
        ELSE sib[l]]

\* no variable of the log sink is in use
LogIdle ==
    /\ logClock = 0
    /\ zone = 0
    /\ logActive = "none"
    /\ logSiblings = [l \in Stamps |-> "none"]
    /\ sinkPc = "none"
    /\ sinkFile = "nil"
    /\ sinkOnPath = FALSE
    /\ handles = 0
    /\ rot = "idle"
    /\ rotated = "none"

\* -------------------------------------------------------------------------
\* TreeImpl operations (pkg/tree/tree.go)
\* -------------------------------------------------------------------------
\* a send that queues behind the value already in the channel
QueueingSend(buffered) == buffered + 1

\* select { case t.stopChan <- true: default: } on an open channel
CoalescingSend(buffered) == IF buffered = 0 THEN 1 ELSE buffered

\* whether the value in stopChan after a send to t was sent while no child of
\* t was alive: a send to a full or closed channel leaves the value there
IdleSend(t) ==
    IF chanClosed[t] \/ stopChan[t] > 0 THEN idleSignal[t] ELSE LiveChildren(t) = {}

\* the non-blocking send of Stop and Restart; a send on a closed channel panics
SendStopSignal(t) ==
    IF chanClosed[t]
    THEN /\ panicked' = TRUE
         /\ UNCHANGED stopChan
    ELSE /\ stopChan' = [stopChan EXCEPT ![t] = CoalescingSend(stopChan[t])]
         /\ UNCHANGED panicked

\* TreeImpl.Stop
TreeStop(t) ==
    /\ ~configWriter[t]
    /\ fullStop' = [fullStop EXCEPT ![t] = TRUE]
    /\ SendStopSignal(t)
    /\ signalled' = [signalled EXCEPT ![t] = TRUE]
    /\ idleSignal' = [idleSignal EXCEPT ![t] = IdleSend(t)]
    /\ stopPending' = [stopPending EXCEPT ![t] = LiveLoops(t) # {}]
    /\ UNCHANGED reloadPending

\* TreeImpl.Restart
TreeRestart(t) ==
    /\ SendStopSignal(t)
    /\ signalled' = [signalled EXCEPT ![t] = TRUE]
    /\ idleSignal' = [idleSignal EXCEPT ![t] = IdleSend(t)]

\* a Reload that goes on after an error of LoadConfig
ReloadIgnoresError(t) == TRUE

\* LoadConfig(t.config.OriginFile) of Reload succeeds
ReloadLoads(t) == ~LoadConfig(files, config[t].OriginFile).err

\* TreeImpl.Reload, from the point where configMu is write-locked, on every
\* TreeImpl of S: the config is replaced and Restart is called, unless
\* LoadConfig fails
ReloadAll(S) ==
    /\ config' = [t \in TreeIds |->
                    IF t \in S /\ ReloadLoads(t)
                    THEN LoadConfig(files, config[t].OriginFile).cfg
                    ELSE config[t]]
    /\ stopChan' = [t \in TreeIds |->
                      IF t \in S /\ ReloadLoads(t) /\ ~chanClosed[t]
                      THEN CoalescingSend(stopChan[t])
                      ELSE stopChan[t]]
    /\ panicked' = (\E t \in S : ReloadLoads(t) /\ chanClosed[t])
    /\ signalled' = [t \in TreeIds |-> signalled[t] \/ (t \in S /\ ReloadLoads(t))]
    /\ idleSignal' = [t \in TreeIds |->
                        IF t \in S /\ ReloadLoads(t) THEN IdleSend(t) ELSE idleSignal[t]]
    /\ reloadPending' = [t \in TreeIds |->
                           IF t \in S /\ ReloadLoads(t)
                           THEN reloadPending[t] \/ LiveChildren(t) # {}
                           ELSE reloadPending[t]]

TreeReload(t) == ReloadAll({t})

\* TreeImpl.Destroy on every TreeImpl of S: Stop, then close(t.stopChan)
DestroyAll(S) ==
    /\ fullStop' = [t \in TreeIds |-> fullStop[t] \/ t \in S]
    /\ stopChan' = [t \in TreeIds |->
                      IF t \in S /\ ~chanClosed[t]
                      THEN CoalescingSend(stopChan[t])
                      ELSE stopChan[t]]
    /\ panicked' = (\E t \in S : chanClosed[t])
    /\ chanClosed' = [t \in TreeIds |-> chanClosed[t] \/ t \in S]
    /\ signalled' = [t \in TreeIds |-> signalled[t] \/ t \in S]
    /\ idleSignal' = [t \in TreeIds |-> IF t \in S THEN IdleSend(t) ELSE idleSignal[t]]
    /\ stopPending' = [t \in TreeIds |->
                         IF t \in S THEN LiveLoops(t) # {} ELSE stopPending[t]]
    /\ UNCHANGED reloadPending

\* the restart decision with > in place of >=
ShouldStopGreater(stop, mode, count, attempts) ==
    stop \/ mode = NeverRestart \/ (mode = LimitedRestart /\ count > attempts)

\* the restart decision without the test for NeverRestart
ShouldStopIgnoringNever(stop, mode, count, attempts) ==
    stop \/ (mode = LimitedRestart /\ count >= attempts)

\* the restart decision of Start
ShouldStop(stop, mode, count, attempts) ==
    stop \/ mode = NeverRestart \/ (mode = LimitedRestart /\ count >= attempts)

\* Start entered without t.runCount = 0
StartEntryNoReset(l) ==
    LET t == loopTree[l] IN
    /\ ~panicked
    /\ pc[l] = "new"
    /\ ~configWriter[t]
    /\ restartMode' = [restartMode EXCEPT ![l] = config[t].Restart]
    /\ restartAttempts' = [restartAttempts EXCEPT ![l] = config[t].RestartAttempts]
    /\ fullStop' = [fullStop EXCEPT ![t] = FALSE]
    /\ pc' = [pc EXCEPT ![l] = "top"]
    /\ UNCHANGED <<files, config, configWriter, stopChan, chanClosed, currState, stampCurrent, runCount,
                   loopTree, iterCancelled, rpc, snap, spawns, ghostVars, ctxDone, logVars,
                   panicked, fsOps, daemonVars>>

\* Start, up to the for loop: the policy locals and the reset of the counters
StartEntry(l) ==
    LET t == loopTree[l] IN
    /\ ~panicked
    /\ pc[l] = "new"
    /\ ~configWriter[t]
    /\ restartMode' = [restartMode EXCEPT ![l] = config[t].Restart]
    /\ restartAttempts' = [restartAttempts EXCEPT ![l] = config[t].RestartAttempts]
    /\ fullStop' = [fullStop EXCEPT ![t] = FALSE]
    /\ runCount' = [runCount EXCEPT ![t] = 0]
    /\ pc' = [pc EXCEPT ![l] = "top"]
    /\ UNCHANGED <<files, config, configWriter, stopChan, chanClosed, currState, stampCurrent,
                   loopTree, iterCancelled, rpc, snap, spawns, ghostVars, ctxDone, logVars,
                   panicked, fsOps, daemonVars>>

\* the values Start reads from t.config under configMu.RLock() for one launch
Snapshot(cfg) ==
    [Command |-> cfg.Command, EnvironmentFile |-> cfg.EnvironmentFile,
     User |-> cfg.User, LogFile |-> cfg.LogFile, MaxLogAge |-> cfg.MaxLogAge]

\* the locals of an invocation that has launched nothing yet
NoSnapshot == Snapshot(DefaultConfig(""))

\* a launch that reads the config for the first iteration only
LaunchFirstSnapshot(l) ==
    /\ ~configWriter[loopTree[l]]
    /\ pc' = [pc EXCEPT ![l] = "wait"]
    /\ rpc' = [rpc EXCEPT ![l] = "begin"]
    /\ snap' = [snap EXCEPT ![l] = IF runCount[loopTree[l]] = 0
                                    THEN Snapshot(config[loopTree[l]])
                                    ELSE @]
    /\ iterCancelled' = [iterCancelled EXCEPT ![l] = FALSE]

\* context.WithCancel, the config snapshot and go t.run(...)
Launch(l) ==
    /\ ~configWriter[loopTree[l]]
    /\ pc' = [pc EXCEPT ![l] = "wait"]
    /\ rpc' = [rpc EXCEPT ![l] = "begin"]
    /\ snap' = [snap EXCEPT ![l] = Snapshot(config[loopTree[l]])]
    /\ iterCancelled' = [iterCancelled EXCEPT ![l] = FALSE]

\* head of the for loop, and with runCount = 0 the launch that follows it
LoopTop(l) ==
    LET t == loopTree[l] IN
    /\ ~panicked
    /\ pc[l] = "top"
    /\ IF fullStop[t]
       THEN /\ SetState(t, StoppedState)
            /\ pc' = [pc EXCEPT ![l] = "done"]
            /\ UNCHANGED <<rpc, snap, iterCancelled>>
       ELSE /\ SetState(t, RestartingState)
            /\ IF runCount[t] > 0
               THEN /\ pc' = [pc EXCEPT ![l] = "delay"]
                    /\ UNCHANGED <<rpc, snap, iterCancelled>>
               ELSE Launch(l)
    /\ UNCHANGED <<files, config, configWriter, stopChan, chanClosed, fullStop,
                   runCount, loopTree, restartMode, restartAttempts,
                   spawns, ghostVars, ctxDone, logVars, panicked, fsOps, daemonVars>>

\* case <-timer.C of the pre-start delay, and the launch that follows it
DelayElapsed(l) ==
    /\ ~panicked
    /\ pc[l] = "delay"
    /\ Launch(l)
    /\ UNCHANGED <<files, treeVars, loopTree, restartMode, restartAttempts,
                   spawns, ghostVars, ctxDone, logVars, panicked, fsOps, daemonVars>>

\* a pre-start delay that waits for the timer only
DelayWithoutCancel(l) ==
    /\ ~panicked
    /\ pc[l] = "delay"
    /\ ctxDone
    /\ Launch(l)
    /\ UNCHANGED <<files, treeVars, loopTree, restartMode, restartAttempts,
                   spawns, ghostVars, ctxDone, logVars, panicked, fsOps, daemonVars>>

\* case <-ctx.Done() of the pre-start delay: return nil
DelayCancelled(l) ==
    /\ ~panicked
    /\ pc[l] = "delay"
    /\ ctxDone
    /\ pc' = [pc EXCEPT ![l] = "done"]
    /\ UNCHANGED <<files, treeVars, loopTree, restartMode, restartAttempts,
                   iterCancelled, rpc, snap, spawns, ghostVars, ctxDone, logVars, panicked, fsOps, daemonVars>>

\* t.runCount++
CountRun(count) == Min(count + 1, MaxCount)

\* run: runCount++, then setCmdSysProcAttr, loadEnvFile or
\* NewRotatingFileWriter fails and the error goes to errChan
RunFail(l) ==
    LET t == loopTree[l] IN
    /\ ~panicked
    /\ rpc[l] = "begin"
    /\ runCount' = [runCount EXCEPT ![t] = CountRun(runCount[t])]
    /\ rpc' = [rpc EXCEPT ![l] = "send"]
    /\ prepFailed' = [prepFailed EXCEPT ![l] = TRUE]
    /\ UNCHANGED <<files, config, configWriter, stopChan, chanClosed, fullStop,
                   currState, stampCurrent, loopTree, pc, restartMode, restartAttempts,
                   iterCancelled, snap, spawns, signalled, idleSignal, stopPending, reloadPending, ctxDone, logVars, panicked,
                   fsOps, daemonVars>>

\* run: runCount++, the command is set up, currState = RunningState, and
\* execCmd.Run() starts the child unless the context is already done
RunExec(l) ==
    LET t == loopTree[l] IN
    /\ ~panicked
    /\ rpc[l] = "begin"
    /\ runCount' = [runCount EXCEPT ![t] = CountRun(runCount[t])]
    /\ SetState(t, RunningState)
    /\ IF IterDone(l)
       THEN /\ rpc' = [rpc EXCEPT ![l] = "send"]
            /\ UNCHANGED <<spawns, reloadPending>>
       ELSE /\ rpc' = [rpc EXCEPT ![l] = "child"]
            /\ spawns' = [spawns EXCEPT ![loopTree[l]] = Min(spawns[loopTree[l]] + 1, MaxCount)]
            /\ reloadPending' = [reloadPending EXCEPT
                                    ![t] = @ /\ snap[l] # Snapshot(config[t])]
    /\ UNCHANGED <<files, config, configWriter, stopChan, chanClosed, fullStop,
                   loopTree, pc, restartMode, restartAttempts,
                   iterCancelled, snap, prepFailed, signalled, idleSignal, stopPending,
                   ctxDone, logVars, panicked, fsOps, daemonVars>>

\* the child process exits on its own; execCmd.Run() returns
ChildExit(l) ==
    /\ ~panicked
    /\ rpc[l] = "child"
    /\ rpc' = [rpc EXCEPT ![l] = "send"]
    /\ UNCHANGED <<files, treeVars, loopTree, pc, restartMode, restartAttempts,
                   iterCancelled, snap, spawns, ghostVars, ctxDone, logVars, panicked, fsOps,
                   daemonVars>>

\* exec.CommandContext kills the child once its context is done
ChildKilled(l) ==
    /\ ~panicked
    /\ rpc[l] = "child"
    /\ IterDone(l)
    /\ rpc' = [rpc EXCEPT ![l] = "send"]
    /\ UNCHANGED <<files, treeVars, loopTree, pc, restartMode, restartAttempts,
                   iterCancelled, snap, spawns, ghostVars, ctxDone, logVars, panicked, fsOps,
                   daemonVars>>

\* a runWait that returns on the stop signal without the receive from errChan
WaitStopReturns(l) ==
    LET t == loopTree[l] IN
    /\ ~panicked
    /\ pc[l] = "wait"
    /\ stopChan[t] > 0 \/ chanClosed[t]
    /\ stopChan' = [stopChan EXCEPT ![t] = IF stopChan[t] > 0 THEN stopChan[t] - 1 ELSE 0]
    /\ pc' = [pc EXCEPT ![l] = "decide"]
    /\ iterCancelled' = [iterCancelled EXCEPT ![l] = TRUE]
    /\ idleSignal' = [idleSignal EXCEPT ![t] = FALSE]
    /\ UNCHANGED <<files, config, configWriter, chanClosed, fullStop, runCount,
                   currState, stampCurrent, loopTree, restartMode, restartAttempts, rpc, snap,
                   spawns, prepFailed, signalled, stopPending, reloadPending, ctxDone,
                   logVars, panicked, fsOps, daemonVars>>

\* runWait: case <-t.stopChan: cancel()
WaitStop(l) ==
    LET t == loopTree[l] IN
    /\ ~panicked
    /\ pc[l] = "wait"
    /\ stopChan[t] > 0 \/ chanClosed[t]
    /\ stopChan' = [stopChan EXCEPT ![t] = IF stopChan[t] > 0 THEN stopChan[t] - 1 ELSE 0]
    /\ iterCancelled' = [iterCancelled EXCEPT ![l] = TRUE]
    /\ idleSignal' = [idleSignal EXCEPT ![t] = FALSE]
    /\ UNCHANGED <<files, config, configWriter, chanClosed, fullStop, runCount,
                   currState, stampCurrent, loopTree, pc, restartMode, restartAttempts, rpc, snap,
                   spawns, prepFailed, signalled, stopPending, reloadPending, ctxDone,
                   logVars, panicked, fsOps, daemonVars>>

\* runWait: case err := <-errChan, the rendezvous with run's send
WaitErr(l) ==
    /\ ~panicked
    /\ pc[l] = "wait"
    /\ rpc[l] = "send"
    /\ pc' = [pc EXCEPT ![l] = "decide"]
    /\ rpc' = [rpc EXCEPT ![l] = "none"]
    /\ UNCHANGED <<files, treeVars, loopTree, restartMode, restartAttempts,
                   iterCancelled, snap, spawns, ghostVars, ctxDone, logVars, panicked, fsOps,
                   daemonVars>>

\* a restart decision that reads the policy from t.config
DecideFromConfig(l) ==
    LET t == loopTree[l] IN
    /\ ~panicked
    /\ pc[l] = "decide"
    /\ IF ShouldStop(fullStop[t], config[t].Restart, runCount[t],
                  config[t].RestartAttempts)
       THEN /\ SetState(t, StoppedState)
            /\ pc' = [pc EXCEPT ![l] = "done"]
       ELSE /\ pc' = [pc EXCEPT ![l] = "top"]
            /\ UNCHANGED <<currState, stampCurrent>>
    /\ UNCHANGED <<files, config, configWriter, stopChan, chanClosed, fullStop,
                   runCount, loopTree, restartMode, restartAttempts,
                   iterCancelled, rpc, snap, spawns, ghostVars, ctxDone, logVars, panicked, fsOps, daemonVars>>

\* the restart decision at the end of the iteration
Decide(l) ==
    LET t == loopTree[l] IN
    /\ ~panicked
    /\ pc[l] = "decide"
    /\ IF ShouldStop(fullStop[t], restartMode[l], runCount[t], restartAttempts[l])
       THEN /\ SetState(t, StoppedState)
            /\ pc' = [pc EXCEPT ![l] = "done"]
       ELSE /\ pc' = [pc EXCEPT ![l] = "top"]
            /\ UNCHANGED <<currState, stampCurrent>>
    /\ UNCHANGED <<files, config, configWriter, stopChan, chanClosed, fullStop,
                   runCount, loopTree, restartMode, restartAttempts,
                   iterCancelled, rpc, snap, spawns, ghostVars, ctxDone, logVars, panicked, fsOps, daemonVars>>

\* the steps of the goroutine that runs run, and the kill of its child
RunStep(l) ==
    \/ RunFail(l)
    \/ RunExec(l)
    \/ ChildKilled(l)

\* -------------------------------------------------------------------------
\* A TreeImpl driven directly, as in pkg/tree/reload_test.go: one Start call
\* at a time, and Stop, Restart and Reload from other goroutines
\* -------------------------------------------------------------------------
TheTree == 1

TheLoop == 1

\* files the test writes to the config file
TreeContents == {1, 2, 3, 4, 5, 8}

\* the goroutine slots no Start call occupies
FreeLoops == {l \in LoopIds : pc[l] \in {"none", "done"}}

\* a new goroutine that will call t.Start(ctx)
NewLoop(t) ==
    /\ FreeLoops # {}
    /\ LET l == CHOOSE l \in FreeLoops : \A m \in FreeLoops : l <= m
       IN  /\ loopTree' = [loopTree EXCEPT ![l] = t]
           /\ pc' = [pc EXCEPT ![l] = "new"]
           /\ prepFailed' = [prepFailed EXCEPT ![l] = FALSE]
    /\ stopPending' = [stopPending EXCEPT ![t] = FALSE]
    /\ UNCHANGED reloadPending
    /\ spawns' = IF LiveLoops(t) = {} THEN [spawns EXCEPT ![t] = 0] ELSE spawns

\* go func() { errChan <- treeImpl.Start(ctx) }(), once the previous call
\* has returned
GoStart ==
    /\ ~panicked
    /\ LiveLoops(TheTree) = {}
    /\ NewLoop(TheTree)
    /\ UNCHANGED <<files, treeVars, restartMode, restartAttempts, iterCancelled, rpc, snap,
                   signalled, idleSignal, ctxDone, logVars, panicked, fsOps, daemonVars>>

\* a Start call while an earlier call has not returned
GoStartAgain ==
    /\ ~panicked
    /\ LiveLoops(TheTree) # {}
    /\ NewLoop(TheTree)
    /\ UNCHANGED <<files, treeVars, restartMode, restartAttempts, iterCancelled, rpc, snap,
                   signalled, idleSignal, ctxDone, logVars, panicked, fsOps, daemonVars>>

CallStop ==
    /\ ~panicked
    /\ TreeStop(TheTree)
    /\ UNCHANGED <<files, config, configWriter, chanClosed, runCount, currState, stampCurrent,
                   loopVars, prepFailed, ctxDone, logVars, fsOps, daemonVars>>

CallRestart ==
    /\ ~panicked
    /\ TreeRestart(TheTree)
    /\ UNCHANGED <<files, config, configWriter, chanClosed, fullStop, runCount,
                   currState, stampCurrent, loopVars, prepFailed, stopPending, reloadPending, ctxDone, logVars, fsOps, daemonVars>>

\* Reload: t.configMu.Lock()
ReloadLock ==
    /\ ~panicked
    /\ ~configWriter[TheTree]
    /\ configWriter' = [configWriter EXCEPT ![TheTree] = TRUE]
    /\ UNCHANGED <<files, config, stopChan, chanClosed, fullStop, runCount,
                   currState, stampCurrent, loopVars, ghostVars, ctxDone, logVars, panicked, fsOps, daemonVars>>

\* Reload: LoadConfig, the replacement of the config, Restart and the unlock
ReloadApply ==
    /\ ~panicked
    /\ configWriter[TheTree]
    /\ TreeReload(TheTree)
    /\ configWriter' = [configWriter EXCEPT ![TheTree] = FALSE]
    /\ UNCHANGED <<files, chanClosed, fullStop, runCount, currState, stampCurrent, loopVars,
                   prepFailed, stopPending, ctxDone, logVars, fsOps, daemonVars>>

\* the config file is rewritten, as by os.WriteFile
WriteFile(c) ==
    /\ fsOps < MaxFsOps
    /\ files["a.tree"] # c
    /\ files' = [files EXCEPT !["a.tree"] = c]
    /\ fsOps' = fsOps + 1
    /\ UNCHANGED <<treeVars, loopVars, ghostVars, ctxDone, logVars, panicked, daemonVars>>

\* cancel() of the context handed to Start
CancelCtx ==
    /\ ~ctxDone
    /\ ctxDone' = TRUE
    /\ UNCHANGED <<files, treeVars, loopVars, ghostVars, panicked, fsOps, daemonVars,
                   logVars>>

NoCall == [op |-> "none", name |-> "", result |-> "none"]

\* no write event has been received and no flush has run
NoBatch == [pending |-> 0, flushed |-> 0]

InitCommon ==
    /\ configWriter = [t \in TreeIds |-> FALSE]
    /\ stopChan = [t \in TreeIds |-> 0]
    /\ chanClosed = [t \in TreeIds |-> FALSE]
    /\ fullStop = [t \in TreeIds |-> FALSE]
    /\ runCount = [t \in TreeIds |-> 0]
    /\ currState = [t \in TreeIds |-> StoppedState]
    /\ stampCurrent = [t \in TreeIds |-> TRUE]
    /\ loopTree = [l \in LoopIds |-> 0]
    /\ pc = [l \in LoopIds |-> "none"]
    /\ restartMode = [l \in LoopIds |-> NeverRestart]
    /\ restartAttempts = [l \in LoopIds |-> 0]
    /\ iterCancelled = [l \in LoopIds |-> FALSE]
    /\ rpc = [l \in LoopIds |-> "none"]
    /\ snap = [l \in LoopIds |-> NoSnapshot]
    /\ spawns = [t \in TreeIds |-> 0]
    /\ prepFailed = [l \in LoopIds |-> FALSE]
    /\ signalled = [t \in TreeIds |-> FALSE]
    /\ idleSignal = [t \in TreeIds |-> FALSE]
    /\ reloadPending = [t \in TreeIds |-> FALSE]
    /\ stopPending = [t \in TreeIds |-> FALSE]
    /\ ctxDone = FALSE
    /\ panicked = FALSE
    /\ fsOps = 0
    /\ readers = 0
    /\ rotHeld = 0
    /\ midnights = 0
    /\ wFile = "a.tree"
    /\ events = <<>>
    /\ updateQueue = {}
    /\ batch = NoBatch
    /\ reqs = 0
    /\ lastCall = NoCall

\* tree.NewTree("a.tree") on a valid config file
InitTree ==
    /\ InitCommon
    /\ LogIdle
    /\ \E c \in TreeContents :
          /\ files = [f \in Files |-> IF f = "a.tree" THEN c ELSE NoFile]
          /\ ~LoadConfig(files, "a.tree").err
          /\ config = [t \in TreeIds |-> IF t = TheTree
                                         THEN LoadConfig(files, "a.tree").cfg
                                         ELSE DefaultConfig("")]
    /\ trees = [n \in Names |-> 0]
    /\ nTrees = 1
    /\ bootList = <<>>
    /\ runPc = "absent"
    /\ httpPc = "absent"
    /\ rotPc = "absent"
    /\ wPc = "absent"

\* the steps of the harness and of the run loop while the config file is
\* left alone
NextFixedFile ==
    \/ GoStart
    \/ CallStop
    \/ CallRestart
    \/ ReloadLock
    \/ ReloadApply
    \/ CancelCtx
    \/ StartEntry(TheLoop)
    \/ LoopTop(TheLoop)
    \/ DelayElapsed(TheLoop)
    \/ DelayCancelled(TheLoop)
    \/ RunFail(TheLoop)
    \/ RunExec(TheLoop)
    \/ ChildExit(TheLoop)
    \/ ChildKilled(TheLoop)
    \/ WaitStop(TheLoop)
    \/ WaitErr(TheLoop)
    \/ Decide(TheLoop)

NextTree ==
    \/ NextFixedFile
    \/ \E c \in TreeContents : WriteFile(c)

SpecTree == InitTree /\ [][NextTree]_vars

\* contents LoadConfig rejects
BrokenContents == {7}

\* the config file is deleted
DeleteFile ==
    /\ fsOps < MaxFsOps
    /\ files["a.tree"] # NoFile
    /\ files' = [files EXCEPT !["a.tree"] = NoFile]
    /\ fsOps' = fsOps + 1
    /\ UNCHANGED <<treeVars, loopVars, ghostVars, ctxDone, logVars, panicked, daemonVars>>

\* the TreeImpl of a config file that is rewritten, also with a content that
\* does not load, or deleted
NextBroken ==
    \/ NextFixedFile
    \/ \E c \in TreeContents \cup BrokenContents : WriteFile(c)
    \/ DeleteFile

SpecBroken == InitTree /\ [][NextBroken]_vars

\* the Go scheduler runs every goroutine that can take a step.  A reader
\* waiting for configMu gets it when the writer unlocks (sync.RWMutex admits
\* the waiting readers before the next writer), and a select with several
\* ready cases picks each of them sooner or later.

\* the steps of the goroutine that runs Start, but for the cases of its
\* selects that compete with the timer and with errChan
LoopStep(l) ==
    \/ StartEntry(l)
    \/ LoopTop(l)
    \/ DelayElapsed(l)
    \/ WaitErr(l)
    \/ Decide(l)

FairLoop(l) ==
    /\ SF_vars(LoopStep(l))
    /\ SF_vars(DelayCancelled(l))
    /\ WF_vars(WaitStop(l))
    /\ WF_vars(RunStep(l))

FairTree ==
    /\ FairLoop(TheLoop)
    /\ WF_vars(ReloadApply)

\* the TreeImpl of a config file that is not rewritten, under fair scheduling
FairSpecTree == InitTree /\ [][NextFixedFile]_vars /\ FairTree

\* a child that is left alone exits on its own
FairSpecSelfExit == FairSpecTree /\ WF_vars(ChildExit(TheLoop))

\* a TreeImpl on which Start is called again while a call is running, as
\* Daemon.StartTree does for a start request on a running tree
NextOverlap ==
    \/ GoStart
    \/ GoStartAgain
    \/ CallStop
    \/ CancelCtx
    \/ \E l \in LoopIds : StartEntry(l)
    \/ \E l \in LoopIds : LoopTop(l)
    \/ \E l \in LoopIds : DelayElapsed(l)
    \/ \E l \in LoopIds : DelayCancelled(l)
    \/ \E l \in LoopIds : RunFail(l)
    \/ \E l \in LoopIds : RunExec(l)
    \/ \E l \in LoopIds : ChildExit(l)
    \/ \E l \in LoopIds : ChildKilled(l)
    \/ \E l \in LoopIds : WaitStop(l)
    \/ \E l \in LoopIds : WaitErr(l)
    \/ \E l \in LoopIds : Decide(l)

SpecOverlap == InitTree /\ [][NextOverlap]_vars

\* Daemon.StartTree on a record that is still in the registry
GoStartRegistered ==
    /\ ~chanClosed[TheTree]
    /\ GoStart

\* t.Destroy(ctx) of Daemon.removeTree, after which the record is out of the
\* registry
CallDestroy ==
    /\ ~panicked
    /\ ~chanClosed[TheTree]
    /\ DestroyAll({TheTree})
    /\ UNCHANGED <<files, config, configWriter, runCount, currState, stampCurrent,
                   loopVars, prepFailed, ctxDone, logVars, fsOps, daemonVars>>

\* a TreeImpl that is started, signalled and then destroyed at any point of
\* its run loop
NextDestroy ==
    \/ GoStartRegistered
    \/ CallDestroy
    \/ CallRestart
    \/ CancelCtx
    \/ StartEntry(TheLoop)
    \/ LoopTop(TheLoop)
    \/ DelayElapsed(TheLoop)
    \/ DelayCancelled(TheLoop)
    \/ RunFail(TheLoop)
    \/ RunExec(TheLoop)
    \/ ChildExit(TheLoop)
    \/ ChildKilled(TheLoop)
    \/ WaitStop(TheLoop)
    \/ WaitErr(TheLoop)
    \/ Decide(TheLoop)

SpecDestroy == InitTree /\ [][NextDestroy]_vars

\* -------------------------------------------------------------------------
\* The daemon (pkg/pine/daemon.go)
\* -------------------------------------------------------------------------
\* contents the config files of the directory take
DaemonContents == {1, 2, 6}

\* the config files of the watched directory
WatchedFiles == {"a.tree"}

\* the names control-plane requests carry
RequestNames == {"A", "a"}

\* treeLock.Lock() returns: no read lock is held (the writers of the model
\* hold the lock within one step)
WriteLockFree == readers = 0

\* a goroutine is inside treeLock.Lock()
WriterWaiting ==
    \/ runPc = "boot" /\ bootList # <<>>
    \/ runPc = "serving" /\ ctxDone
    \/ wPc = "load"
    \/ wPc = "remove" /\ ~LoadConfig(files, wFile).err

\* treeLock.RLock() returns: sync.RWMutex holds new readers back while a
\* writer waits for the present readers
ReadLockable == ~(readers > 0 /\ WriterWaiting)

\* loadTree as it would be if a conflicting name replaced the config of the
\* registered record
LoadTreeOverwrite(f) ==
    LET r == LoadConfig(files, f) IN
    IF r.err
    THEN UNCHANGED <<config, trees, nTrees, loopTree, pc, stopPending, reloadPending, spawns, prepFailed>>
    ELSE IF trees[r.cfg.Name] # 0
    THEN /\ config' = [config EXCEPT ![trees[r.cfg.Name]] = r.cfg]
         /\ UNCHANGED <<trees, nTrees, loopTree, pc, stopPending, reloadPending, spawns, prepFailed>>
    ELSE /\ nTrees < MaxTrees
         /\ config' = [config EXCEPT ![nTrees + 1] = r.cfg]
         /\ trees' = [trees EXCEPT ![r.cfg.Name] = nTrees + 1]
         /\ nTrees' = nTrees + 1
         /\ NewLoop(nTrees + 1)

\* loadTree as it would be without d.trees[name] = t
LoadTreeUnregistered(f) ==
    LET r == LoadConfig(files, f) IN
    IF r.err \/ trees[r.cfg.Name] # 0
    THEN UNCHANGED <<config, trees, nTrees, loopTree, pc, stopPending, reloadPending, spawns, prepFailed>>
    ELSE /\ nTrees < MaxTrees
         /\ config' = [config EXCEPT ![nTrees + 1] = r.cfg]
         /\ nTrees' = nTrees + 1
         /\ NewLoop(nTrees + 1)
         /\ UNCHANGED trees

\* Daemon.loadTree, from the point where treeLock is write-locked
LoadTree(f) ==
    LET r == LoadConfig(files, f) IN
    IF r.err \/ trees[r.cfg.Name] # 0
    THEN UNCHANGED <<config, trees, nTrees, loopTree, pc, stopPending, reloadPending, spawns, prepFailed>>
    ELSE /\ nTrees < MaxTrees
         /\ config' = [config EXCEPT ![nTrees + 1] = r.cfg]
         /\ trees' = [trees EXCEPT ![r.cfg.Name] = nTrees + 1]
         /\ nTrees' = nTrees + 1
         /\ NewLoop(nTrees + 1)

\* findTrees: loadTree on the next file of the Glob
BootLoad ==
    /\ ~panicked
    /\ runPc = "boot"
    /\ bootList # <<>>
    /\ WriteLockFree
    /\ LoadTree(Head(bootList))
    /\ bootList' = Tail(bootList)
    /\ UNCHANGED <<files, configWriter, stopChan, chanClosed, fullStop, runCount,
                   currState, stampCurrent, restartMode, restartAttempts, iterCancelled, rpc, snap,
                   signalled, idleSignal, ctxDone, logVars, panicked, fsOps, readers, rotHeld,
                   midnights, runPc, httpPc, rotPc, wPc, wFile, events, updateQueue, batch,
                   reqs, lastCall>>

\* findTrees starts the watcher goroutine; Run waits on <-ctx.Done()
BootDone ==
    /\ ~panicked
    /\ runPc = "boot"
    /\ bootList = <<>>
    /\ runPc' = "serving"
    /\ wPc' = "select"
    /\ UNCHANGED <<files, treeVars, loopVars, ghostVars, ctxDone, logVars, panicked, fsOps, trees,
                   nTrees, readers, rotHeld, midnights, bootList, httpPc, rotPc, wFile,
                   events, updateQueue, batch, reqs, lastCall>>

\* the TreeImpl objects of the registry
Registered == {trees[n] : n \in Names} \ {0}

\* Run after <-ctx.Done(): d.stop destroys every tree of the registry
DaemonStop ==
    /\ ~panicked
    /\ runPc = "serving"
    /\ ctxDone
    /\ WriteLockFree
    /\ DestroyAll(Registered)
    /\ runPc' = "joining"
    /\ UNCHANGED <<files, config, configWriter, runCount, currState, stampCurrent, loopVars,
                   prepFailed, ctxDone, logVars, fsOps, trees, nTrees, readers, rotHeld,
                   midnights, bootList, httpPc, rotPc, wPc, wFile, events, updateQueue, batch,
                   reqs, lastCall>>

\* every goroutine started with d.wg.Go has returned
AllTasksDone ==
    /\ httpPc = "done"
    /\ rotPc = "done"
    /\ wPc = "done"
    /\ \A l \in LoopIds : pc[l] \in {"none", "done"}

\* a Run that does not wait for the run loops
RunReturnEarly ==
    /\ ~panicked
    /\ runPc = "joining"
    /\ httpPc = "done"
    /\ rotPc = "done"
    /\ wPc = "done"
    /\ runPc' = "returned"
    /\ UNCHANGED <<files, treeVars, loopVars, ghostVars, ctxDone, logVars, panicked, fsOps, trees,
                   nTrees, readers, rotHeld, midnights, bootList, httpPc, rotPc, wPc,
                   wFile, events, updateQueue, batch, reqs, lastCall>>

\* Run: d.wg.Wait() returns, and Run returns
RunReturn ==
    /\ ~panicked
    /\ runPc = "joining"
    /\ AllTasksDone
    /\ runPc' = "returned"
    /\ UNCHANGED <<files, treeVars, loopVars, ghostVars, ctxDone, logVars, panicked, fsOps, trees,
                   nTrees, readers, rotHeld, midnights, bootList, httpPc, rotPc, wPc,
                   wFile, events, updateQueue, batch, reqs, lastCall>>

\* HttpServer.Start: case <-ctx.Done(): Shutdown
HttpShutdown ==
    /\ ~panicked
    /\ httpPc = "serving"
    /\ ctxDone
    /\ httpPc' = "done"
    /\ UNCHANGED <<files, treeVars, loopVars, ghostVars, ctxDone, logVars, panicked, fsOps, trees,
                   nTrees, readers, rotHeld, midnights, runPc, bootList, rotPc, wPc,
                   wFile, events, updateQueue, batch, reqs, lastCall>>

\* a control-plane request can be served
Serving ==
    /\ ~panicked
    /\ httpPc = "serving"
    /\ reqs < MaxRequests
    /\ ReadLockable

Call(op, n, result) == [op |-> op, name |-> n, result |-> result]

\* Daemon.StartTree
StartTree(n) ==
    /\ Serving
    /\ reqs' = reqs + 1
    /\ IF trees[n] = 0
       THEN /\ lastCall' = Call("start", n, "notfound")
            /\ UNCHANGED <<loopTree, pc, stopPending, reloadPending, spawns, prepFailed>>
       ELSE /\ Cardinality(LiveLoops(trees[n])) < MaxStarts
            /\ NewLoop(trees[n])
            /\ lastCall' = Call("start", n, "ok")
    /\ UNCHANGED <<files, treeVars, restartMode, restartAttempts, iterCancelled, rpc, snap,
                   signalled, idleSignal, ctxDone, logVars, panicked, fsOps, trees,
                   nTrees, readers, rotHeld, midnights, runPc, bootList, httpPc, rotPc,
                   wPc, wFile, events, updateQueue, batch>>

\* Daemon.StopTree
StopTree(n) ==
    /\ Serving
    /\ reqs' = reqs + 1
    /\ IF trees[n] = 0
       THEN /\ lastCall' = Call("stop", n, "notfound")
            /\ UNCHANGED <<fullStop, stopChan, panicked, signalled, idleSignal, stopPending, reloadPending>>
       ELSE /\ TreeStop(trees[n])
            /\ lastCall' = Call("stop", n, "ok")
    /\ UNCHANGED <<files, config, configWriter, chanClosed, runCount, currState, stampCurrent,
                   loopVars, prepFailed, ctxDone, logVars, fsOps, trees, nTrees, readers,
                   rotHeld, midnights, runPc, bootList, httpPc, rotPc, wPc, wFile,
                   events, updateQueue, batch>>

\* a RestartTree that does not look at the restart policy
RestartTreeUnchecked(n) ==
    /\ Serving
    /\ reqs' = reqs + 1
    /\ IF trees[n] = 0
       THEN /\ lastCall' = Call("restart", n, "notfound")
            /\ UNCHANGED <<stopChan, panicked, signalled, idleSignal>>
       ELSE /\ TreeRestart(trees[n])
            /\ lastCall' = Call("restart", n, "ok")
    /\ UNCHANGED <<files, config, configWriter, chanClosed, fullStop, runCount,
                   currState, stampCurrent, loopVars, prepFailed, stopPending, reloadPending, ctxDone, logVars, fsOps, trees,
                   nTrees, readers, rotHeld, midnights, runPc, bootList, httpPc, rotPc,
                   wPc, wFile, events, updateQueue, batch>>

\* Daemon.RestartTree
RestartTree(n) ==
    /\ Serving
    /\ reqs' = reqs + 1
    /\ IF trees[n] = 0
       THEN /\ lastCall' = Call("restart", n, "notfound")
            /\ UNCHANGED <<stopChan, panicked, signalled, idleSignal>>
       ELSE IF config[trees[n]].Restart = NeverRestart
       THEN /\ lastCall' = Call("restart", n, "error")
            /\ UNCHANGED <<stopChan, panicked, signalled, idleSignal>>
       ELSE /\ TreeRestart(trees[n])
            /\ lastCall' = Call("restart", n, "ok")
    /\ UNCHANGED <<files, config, configWriter, chanClosed, fullStop, runCount,
                   currState, stampCurrent, loopVars, prepFailed, stopPending, reloadPending, ctxDone, logVars, fsOps, trees,
                   nTrees, readers, rotHeld, midnights, runPc, bootList, httpPc, rotPc,
                   wPc, wFile, events, updateQueue, batch>>

\* rotateTreeLogFiles: case <-timer.C
MidnightTimer ==
    /\ ~panicked
    /\ rotPc = "waiting"
    /\ midnights < MaxMidnights
    /\ midnights' = midnights + 1
    /\ rotPc' = "locking"
    /\ UNCHANGED <<files, treeVars, loopVars, ghostVars, ctxDone, logVars, panicked, fsOps, trees,
                   nTrees, readers, rotHeld, runPc, bootList, httpPc, wPc, wFile,
                   events, updateQueue, batch, reqs, lastCall>>

\* rotateTreeLogFiles: RLock, defer RUnlock, and RotateLog on every tree; the
\* deferred RUnlock runs when rotateTreeLogFiles returns
RotatePass ==
    /\ ~panicked
    /\ rotPc = "locking"
    /\ ReadLockable
    /\ readers' = readers + 1
    /\ rotHeld' = rotHeld + 1
    /\ rotPc' = "waiting"
    /\ UNCHANGED <<files, treeVars, loopVars, ghostVars, ctxDone, logVars, panicked, fsOps, trees,
                   nTrees, midnights, runPc, bootList, httpPc, wPc, wFile, events,
                   updateQueue, batch, reqs, lastCall>>

\* rotateTreeLogFiles: case <-ctx.Done(): return, which runs the defers
RotatorExit ==
    /\ ~panicked
    /\ rotPc = "waiting"
    /\ ctxDone
    /\ readers' = readers - rotHeld
    /\ rotHeld' = 0
    /\ rotPc' = "done"
    /\ UNCHANGED <<files, treeVars, loopVars, ghostVars, ctxDone, logVars, panicked, fsOps, trees,
                   nTrees, midnights, runPc, bootList, httpPc, wPc, wFile, events,
                   updateQueue, batch, reqs, lastCall>>

\* the watcher goroutine: case event := <-watcher.Events
WatcherTake ==
    /\ ~panicked
    /\ wPc = "select"
    /\ events # <<>>
    /\ events' = Tail(events)
    /\ LET kind == Head(events)[1]
           f == Head(events)[2]
       IN  CASE kind = "write" ->
                  /\ updateQueue' = updateQueue \cup {f}
                  /\ batch' = [batch EXCEPT !.pending = Min(@ + 1, MaxWrites)]
                  /\ UNCHANGED <<wPc, wFile>>
             [] kind = "create" ->
                  /\ wPc' = "load"
                  /\ wFile' = f
                  /\ UNCHANGED <<updateQueue, batch>>
             [] kind = "remove" ->
                  /\ wPc' = "remove"
                  /\ wFile' = f
                  /\ UNCHANGED <<updateQueue, batch>>
    /\ UNCHANGED <<files, treeVars, loopVars, ghostVars, ctxDone, logVars, panicked, fsOps, trees,
                   nTrees, readers, rotHeld, midnights, runPc, bootList, httpPc, rotPc,
                   reqs, lastCall>>

\* the watcher goroutine: d.loadTree(ctx, event.Name)
WatcherLoad ==
    /\ ~panicked
    /\ wPc = "load"
    /\ WriteLockFree
    /\ LoadTree(wFile)
    /\ wPc' = "select"
    /\ UNCHANGED <<files, configWriter, stopChan, chanClosed, fullStop, runCount,
                   currState, stampCurrent, restartMode, restartAttempts, iterCancelled, rpc, snap,
                   signalled, idleSignal, ctxDone, logVars, panicked, fsOps, readers, rotHeld,
                   midnights, runPc, bootList, httpPc, rotPc, wFile, events, updateQueue, batch,
                   reqs, lastCall>>

\* the watcher goroutine: d.removeTree(ctx, event.Name)
WatcherRemove ==
    /\ ~panicked
    /\ wPc = "remove"
    /\ wPc' = "select"
    /\ LET r == LoadConfig(files, wFile) IN
       IF r.err
       THEN UNCHANGED <<trees, fullStop, stopChan, panicked, chanClosed, signalled, idleSignal,
                        stopPending, reloadPending>>
       ELSE /\ WriteLockFree
            /\ IF trees[r.cfg.Name] = 0
               THEN UNCHANGED <<trees, fullStop, stopChan, panicked, chanClosed,
                                signalled, idleSignal, stopPending, reloadPending>>
               ELSE /\ DestroyAll({trees[r.cfg.Name]})
                    /\ trees' = [trees EXCEPT ![r.cfg.Name] = 0]
    /\ UNCHANGED <<files, config, configWriter, runCount, currState, stampCurrent, loopVars,
                   prepFailed, ctxDone, logVars, fsOps, nTrees, readers, rotHeld, midnights,
                   runPc, bootList, httpPc, rotPc, wFile, events, updateQueue, batch, reqs,
                   lastCall>>

\* the files of the update queue whose config loads
Loadable(queue) == {f \in queue : ~LoadConfig(files, f).err}

\* Daemon.updateTree finds no tree of the file's name and returns without
\* RUnlock
UpdateLeaks(queue) ==
    {f \in Loadable(queue) : trees[LoadConfig(files, f).cfg.Name] = 0}

\* the trees Daemon.updateTree reloads
UpdateTargets(queue) ==
    {trees[LoadConfig(files, f).cfg.Name] : f \in Loadable(queue) \ UpdateLeaks(queue)}

\* a flush that leaves the flags of the update queue set
WatcherFlushKeepsQueue ==
    /\ ~panicked
    /\ wPc = "select"
    /\ updateQueue # {}
    /\ ReadLockable
    /\ ReloadAll(UpdateTargets(updateQueue))
    /\ readers' = readers + Cardinality(UpdateLeaks(updateQueue))
    /\ UNCHANGED <<files, configWriter, chanClosed, fullStop, runCount, currState, stampCurrent,
                   loopVars, prepFailed, stopPending, ctxDone, logVars, fsOps, trees, nTrees,
                   rotHeld, midnights, runPc, bootList, httpPc, rotPc, wPc, wFile,
                   events, updateQueue, batch, reqs, lastCall>>

\* the watcher goroutine: case <-flushTimer.C with updates in the queue:
\* d.updateTree on every file of the queue
WatcherFlush ==
    /\ ~panicked
    /\ wPc = "select"
    /\ updateQueue # {}
    /\ ReadLockable
    /\ ReloadAll(UpdateTargets(updateQueue))
    /\ readers' = readers + Cardinality(UpdateLeaks(updateQueue))
    /\ updateQueue' = {}
    /\ batch' = [pending |-> 0, flushed |-> batch.pending]
    /\ UNCHANGED <<files, configWriter, chanClosed, fullStop, runCount, currState, stampCurrent,
                   loopVars, prepFailed, stopPending, ctxDone, logVars, fsOps, trees, nTrees,
                   rotHeld, midnights, runPc, bootList, httpPc, rotPc, wPc, wFile,
                   events, reqs, lastCall>>

\* the watcher goroutine: case <-ctx.Done(): return
WatcherExit ==
    /\ ~panicked
    /\ wPc = "select"
    /\ ctxDone
    /\ wPc' = "done"
    /\ UNCHANGED <<files, treeVars, loopVars, ghostVars, ctxDone, logVars, panicked, fsOps, trees,
                   nTrees, readers, rotHeld, midnights, runPc, bootList, httpPc, rotPc,
                   wFile, events, updateQueue, batch, reqs, lastCall>>

\* the file system changes while the watcher watches the directory
FsChange == fsOps < MaxFsOps /\ wPc # "done" /\ ~panicked

\* a file is created and written, as by os.Create and WriteString
FsCreate(f, c) ==
    /\ FsChange
    /\ files[f] = NoFile
    /\ files' = [files EXCEPT ![f] = c]
    /\ events' = events \o << <<"create", f>>, <<"write", f>> >>
    /\ fsOps' = fsOps + 1
    /\ UNCHANGED <<treeVars, loopVars, ghostVars, ctxDone, logVars, panicked, trees, nTrees,
                   readers, rotHeld, midnights, runPc, bootList, httpPc, rotPc, wPc,
                   wFile, updateQueue, batch, reqs, lastCall>>

\* a file is rewritten, as by os.WriteFile
FsWrite(f, c) ==
    /\ FsChange
    /\ files[f] \notin {NoFile, c}
    /\ files' = [files EXCEPT ![f] = c]
    /\ events' = Append(events, <<"write", f>>)
    /\ fsOps' = fsOps + 1
    /\ UNCHANGED <<treeVars, loopVars, ghostVars, ctxDone, logVars, panicked, trees, nTrees,
                   readers, rotHeld, midnights, runPc, bootList, httpPc, rotPc, wPc,
                   wFile, updateQueue, batch, reqs, lastCall>>

\* a file is deleted
FsRemove(f) ==
    /\ FsChange
    /\ files[f] # NoFile
    /\ files' = [files EXCEPT ![f] = NoFile]
    /\ events' = Append(events, <<"remove", f>>)
    /\ fsOps' = fsOps + 1
    /\ UNCHANGED <<treeVars, loopVars, ghostVars, ctxDone, logVars, panicked, trees, nTrees,
                   readers, rotHeld, midnights, runPc, bootList, httpPc, rotPc, wPc,
                   wFile, updateQueue, batch, reqs, lastCall>>

\* the files of a directory listing, in the order of filepath.Glob
GlobOrder(fs) ==
    (IF fs["a.tree"] # NoFile THEN <<"a.tree">> ELSE <<>>)
        \o (IF fs["b.tree"] # NoFile THEN <<"b.tree">> ELSE <<>>)

\* Run has started the control-plane server and the rotation task, and
\* findTrees has listed the directory
InitDaemon ==
    /\ InitCommon
    /\ LogIdle
    /\ \E c \in {NoFile, 1, 2} :
          files = [f \in Files |-> IF f \in WatchedFiles THEN c ELSE NoFile]
    /\ config = [t \in TreeIds |-> DefaultConfig("")]
    /\ trees = [n \in Names |-> 0]
    /\ nTrees = 0
    /\ bootList = GlobOrder(files)
    /\ runPc = "boot"
    /\ httpPc = "serving"
    /\ rotPc = "waiting"
    /\ wPc = "unstarted"

NextDaemon ==
    \/ BootLoad
    \/ BootDone
    \/ DaemonStop
    \/ RunReturn
    \/ HttpShutdown
    \/ \E n \in RequestNames : StartTree(n)
    \/ \E n \in RequestNames : StopTree(n)
    \/ \E n \in RequestNames : RestartTree(n)
    \/ MidnightTimer
    \/ RotatePass
    \/ RotatorExit
    \/ WatcherTake
    \/ WatcherLoad
    \/ WatcherRemove
    \/ WatcherFlush
    \/ WatcherExit
    \/ \E f \in WatchedFiles, c \in DaemonContents : FsCreate(f, c)
    \/ \E f \in WatchedFiles, c \in DaemonContents : FsWrite(f, c)
    \/ \E f \in WatchedFiles : FsRemove(f)
    \/ CancelCtx
    \/ \E l \in LoopIds : StartEntry(l)
    \/ \E l \in LoopIds : LoopTop(l)
    \/ \E l \in LoopIds : DelayElapsed(l)
    \/ \E l \in LoopIds : DelayCancelled(l)
    \/ \E l \in LoopIds : RunFail(l)
    \/ \E l \in LoopIds : RunExec(l)
    \/ \E l \in LoopIds : ChildExit(l)
    \/ \E l \in LoopIds : ChildKilled(l)
    \/ \E l \in LoopIds : WaitStop(l)
    \/ \E l \in LoopIds : WaitErr(l)
    \/ \E l \in LoopIds : Decide(l)

SpecDaemon == InitDaemon /\ [][NextDaemon]_vars

\* the goroutines of the daemon are scheduled fairly
FairDaemon ==
    /\ \A l \in LoopIds : FairLoop(l)
    /\ SF_vars(BootLoad \/ BootDone \/ DaemonStop \/ RunReturn)
    /\ WF_vars(HttpShutdown)
    /\ SF_vars(RotatePass)
    /\ SF_vars(RotatorExit)
    /\ SF_vars(WatcherLoad \/ WatcherRemove)
    /\ SF_vars(WatcherFlush)
    /\ SF_vars(WatcherExit)

FairSpecDaemon == SpecDaemon /\ FairDaemon

\* the configs that carry a Name line, all of them naming "A"
NamedContents == {1, 2}

\* the daemon over a directory whose files all declare the Name "A":
\* a.tree is there when findTrees lists the directory, b.tree is there or is
\* created later
InitSameName ==
    /\ InitCommon
    /\ LogIdle
    /\ \E d \in {NoFile, 2} : files = [f \in Files |-> IF f = "a.tree" THEN 1 ELSE d]
    /\ config = [t \in TreeIds |-> DefaultConfig("")]
    /\ trees = [n \in Names |-> 0]
    /\ nTrees = 0
    /\ bootList = GlobOrder(files)
    /\ runPc = "boot"
    /\ httpPc = "serving"
    /\ rotPc = "waiting"
    /\ wPc = "unstarted"

NextSameName ==
    \/ BootLoad
    \/ BootDone
    \/ DaemonStop
    \/ RunReturn
    \/ HttpShutdown
    \/ \E n \in RequestNames : StartTree(n)
    \/ \E n \in RequestNames : StopTree(n)
    \/ \E n \in RequestNames : RestartTree(n)
    \/ MidnightTimer
    \/ RotatePass
    \/ RotatorExit
    \/ WatcherTake
    \/ WatcherLoad
    \/ WatcherRemove
    \/ WatcherFlush
    \/ WatcherExit
    \/ \E f \in Files, c \in NamedContents : FsCreate(f, c)
    \/ \E f \in WatchedFiles, c \in NamedContents : FsWrite(f, c)
    \/ \E f \in WatchedFiles : FsRemove(f)
    \/ CancelCtx
    \/ \E l \in LoopIds : StartEntry(l)
    \/ \E l \in LoopIds : LoopTop(l)
    \/ \E l \in LoopIds : DelayElapsed(l)
    \/ \E l \in LoopIds : DelayCancelled(l)
    \/ \E l \in LoopIds : RunFail(l)
    \/ \E l \in LoopIds : RunExec(l)
    \/ \E l \in LoopIds : ChildExit(l)
    \/ \E l \in LoopIds : ChildKilled(l)
    \/ \E l \in LoopIds : WaitStop(l)
    \/ \E l \in LoopIds : WaitErr(l)
    \/ \E l \in LoopIds : Decide(l)

SpecSameName == InitSameName /\ [][NextSameName]_vars

\* the daemon while no request arrives, no file is created or removed and
\* midnight does not pass: config files are rewritten, and the root context
\* is cancelled
NextQuiet ==
    \/ BootLoad
    \/ BootDone
    \/ DaemonStop
    \/ RunReturn
    \/ HttpShutdown
    \/ RotatorExit
    \/ WatcherTake
    \/ WatcherFlush
    \/ WatcherExit
    \/ \E f \in WatchedFiles, c \in DaemonContents : FsWrite(f, c)
    \/ CancelCtx
    \/ \E l \in LoopIds : StartEntry(l)
    \/ \E l \in LoopIds : LoopTop(l)
    \/ \E l \in LoopIds : DelayElapsed(l)
    \/ \E l \in LoopIds : DelayCancelled(l)
    \/ \E l \in LoopIds : RunFail(l)
    \/ \E l \in LoopIds : RunExec(l)
    \/ \E l \in LoopIds : ChildExit(l)
    \/ \E l \in LoopIds : ChildKilled(l)
    \/ \E l \in LoopIds : WaitStop(l)
    \/ \E l \in LoopIds : WaitErr(l)
    \/ \E l \in LoopIds : Decide(l)

\* the watched directory holds a config file when the daemon starts
InitQuiet == InitDaemon /\ bootList # <<>>

\* the goroutines the quiet daemon runs are scheduled fairly
FairQuiet ==
    /\ FairLoop(TheLoop)
    /\ SF_vars(BootLoad \/ BootDone \/ DaemonStop \/ RunReturn)
    /\ WF_vars(HttpShutdown)
    /\ WF_vars(RotatorExit)
    /\ SF_vars(WatcherFlush)
    /\ SF_vars(WatcherExit)

FairSpecQuiet == InitQuiet /\ [][NextQuiet]_vars /\ FairQuiet

\* a file is rewritten by an editor that saves it more than once
FsRewrite(f, c) ==
    /\ fsOps < MaxWrites
    /\ wPc # "done"
    /\ ~panicked
    /\ files[f] \notin {NoFile, c}
    /\ files' = [files EXCEPT ![f] = c]
    /\ events' = Append(events, <<"write", f>>)
    /\ fsOps' = fsOps + 1
    /\ UNCHANGED <<treeVars, loopVars, ghostVars, ctxDone, logVars, panicked, trees, nTrees,
                   readers, rotHeld, midnights, runPc, bootList, httpPc, rotPc, wPc,
                   wFile, updateQueue, batch, reqs, lastCall>>

\* the daemon while a config file is saved repeatedly: no request arrives,
\* no file is created or removed and midnight does not pass
NextBatch ==
    \/ BootLoad
    \/ BootDone
    \/ DaemonStop
    \/ RunReturn
    \/ HttpShutdown
    \/ RotatorExit
    \/ WatcherTake
    \/ WatcherFlush
    \/ WatcherExit
    \/ \E f \in WatchedFiles, c \in DaemonContents : FsRewrite(f, c)
    \/ CancelCtx
    \/ \E l \in LoopIds : StartEntry(l)
    \/ \E l \in LoopIds : LoopTop(l)
    \/ \E l \in LoopIds : DelayElapsed(l)
    \/ \E l \in LoopIds : DelayCancelled(l)
    \/ \E l \in LoopIds : RunFail(l)
    \/ \E l \in LoopIds : RunExec(l)
    \/ \E l \in LoopIds : ChildExit(l)
    \/ \E l \in LoopIds : ChildKilled(l)
    \/ \E l \in LoopIds : WaitStop(l)
    \/ \E l \in LoopIds : WaitErr(l)
    \/ \E l \in LoopIds : Decide(l)

SpecBatch == InitQuiet /\ [][NextBatch]_vars

\* the directory holds a.tree, which declares the Name "A", and b.tree with
\* the same Name
InitTwoFiles ==
    /\ InitSameName
    /\ files["b.tree"] # NoFile

\* the running daemon while the two files are rewritten
NextTwoFiles ==
    \/ BootLoad
    \/ BootDone
    \/ WatcherTake
    \/ WatcherFlush
    \/ \E f \in Files, c \in DaemonContents : FsRewrite(f, c)
    \/ \E l \in LoopIds : StartEntry(l)
    \/ \E l \in LoopIds : LoopTop(l)
    \/ \E l \in LoopIds : DelayElapsed(l)
    \/ \E l \in LoopIds : RunFail(l)
    \/ \E l \in LoopIds : RunExec(l)
    \/ \E l \in LoopIds : ChildExit(l)
    \/ \E l \in LoopIds : ChildKilled(l)
    \/ \E l \in LoopIds : WaitStop(l)
    \/ \E l \in LoopIds : WaitErr(l)
    \/ \E l \in LoopIds : Decide(l)

SpecTwoFiles == InitTwoFiles /\ [][NextTwoFiles]_vars

\* -------------------------------------------------------------------------
\* The loader on its own, as in pkg/tree/config_test.go: tree.NewTree on the
\* files of a directory
\* -------------------------------------------------------------------------

\* the directory holds any files of the content table
InitLoader ==
    /\ InitCommon
    /\ LogIdle
    /\ files \in [Files -> Contents \cup {NoFile}]
    /\ config = [t \in TreeIds |-> DefaultConfig("")]
    /\ trees = [n \in Names |-> 0]
    /\ nTrees = 0
    /\ bootList = <<>>
    /\ runPc = "absent"
    /\ httpPc = "absent"
    /\ rotPc = "absent"
    /\ wPc = "absent"

\* tree.NewTree(f): LoadConfig, and on success a TreeImpl with the config
NewTree(f) ==
    LET r == LoadConfig(files, f) IN
    /\ nTrees < MaxTrees
    /\ ~r.err
    /\ config' = [config EXCEPT ![nTrees + 1] = r.cfg]
    /\ nTrees' = nTrees + 1
    /\ UNCHANGED <<files, configWriter, stopChan, chanClosed, fullStop, runCount,
                   currState, stampCurrent, loopVars, ghostVars, ctxDone, logVars, panicked,
                   fsOps, trees, readers, rotHeld, midnights, runPc, bootList, httpPc,
                   rotPc, wPc, wFile, events, updateQueue, batch, reqs, lastCall>>

NextLoader == \E f \in Files : NewTree(f)

SpecLoader == InitLoader /\ [][NextLoader]_vars

\* -------------------------------------------------------------------------
\* The rotating log sink (pkg/tree/logger.go) of one run-loop iteration, with
\* the rotation task calling Rotate through TreeImpl.RotateLog
\* -------------------------------------------------------------------------

nonLogVars == <<files, treeVars, loopVars, ghostVars, ctxDone, panicked, fsOps, daemonVars>>

\* NewRotatingFileWriter: a non-empty file at the path is renamed, the path
\* is opened for append and old files are removed
SinkOpen ==
    /\ sinkPc = "none"
    /\ LET renamed == IF logActive = "data"
                      THEN [logSiblings EXCEPT ![FormatStamp(logClock)] = "data"]
                      ELSE logSiblings
       IN  /\ logSiblings' = RemoveOldFiles(renamed, logClock)
           /\ logActive' = "empty"
    /\ sinkFile' = "open"
    /\ sinkOnPath' = TRUE
    /\ handles' = handles + 1
    /\ sinkPc' = "live"
    /\ UNCHANGED <<nonLogVars, logClock, zone, rot, rotated>>

\* RotatingFileWriter.Write, under w.mu: the child's output reaches the file
SinkWrite ==
    /\ sinkPc = "live"
    /\ rot = "idle"
    /\ sinkFile = "open"
    /\ sinkOnPath
    /\ logActive' = "data"
    /\ UNCHANGED <<nonLogVars, logClock, zone, logSiblings, sinkPc, sinkFile, sinkOnPath,
                   handles, rot, rotated>>

\* RotatingFileWriter.Close, deferred by run: w.file.Close() without w.mu;
\* closing a closed file is an error that the defer drops
SinkClose ==
    /\ sinkPc = "live"
    /\ sinkPc' = "closed"
    /\ IF sinkFile = "open"
       THEN /\ sinkFile' = "closed"
            /\ handles' = handles - 1
       ELSE UNCHANGED <<sinkFile, handles>>
    /\ UNCHANGED <<nonLogVars, logClock, zone, logActive, logSiblings, sinkOnPath, rot,
                   rotated>>

\* TreeImpl.RotateLog with t.logger set, and Rotate up to w.file.Close():
\* an error of Close is returned
RotateClose ==
    /\ rot = "idle"
    /\ sinkPc # "none"
    /\ IF sinkFile = "open"
       THEN /\ sinkFile' = "closed"
            /\ handles' = handles - 1
            /\ rot' = "rename"
            /\ UNCHANGED rotated
       ELSE /\ rotated' = "err"
            /\ UNCHANGED <<sinkFile, handles, rot>>
    /\ UNCHANGED <<nonLogVars, logClock, zone, logActive, logSiblings, sinkPc, sinkOnPath>>

\* Rotate: os.Rename(w.path, stampedFilename(w.path))
RotateRename ==
    /\ rot = "rename"
    /\ logSiblings' = [logSiblings EXCEPT ![FormatStamp(logClock)] = logActive]
    /\ logActive' = "none"
    /\ sinkOnPath' = FALSE
    /\ rot' = "prune"
    /\ UNCHANGED <<nonLogVars, logClock, zone, sinkPc, sinkFile, handles, rotated>>

\* Rotate: removeOldFiles(w.path, w.maxAge)
RotatePrune ==
    /\ rot = "prune"
    /\ logSiblings' = RemoveOldFiles(logSiblings, logClock)
    /\ rot' = "open"
    /\ UNCHANGED <<nonLogVars, logClock, zone, logActive, sinkPc, sinkFile, sinkOnPath,
                   handles, rotated>>

\* Rotate: os.OpenFile(w.path, ...) and w.file = f
RotateOpen ==
    /\ rot = "open"
    /\ logActive' = "empty"
    /\ sinkFile' = "open"
    /\ sinkOnPath' = TRUE
    /\ handles' = handles + 1
    /\ rot' = "return"
    /\ UNCHANGED <<nonLogVars, logClock, zone, logSiblings, sinkPc, rotated>>

\* Rotate: return nil, and the deferred w.mu.Unlock()
RotateReturn ==
    /\ rot = "return"
    /\ rot' = "idle"
    /\ rotated' = "ok"
    /\ UNCHANGED <<nonLogVars, logClock, zone, logActive, logSiblings, sinkPc, sinkFile,
                   sinkOnPath, handles>>

\* time passes; a Rotate call takes less than a tick
LogTick ==
    /\ rot = "idle"
    /\ logClock < MaxClock
    /\ logClock' = logClock + 1
    /\ UNCHANGED <<nonLogVars, zone, logActive, logSiblings, sinkPc, sinkFile, sinkOnPath,
                   handles, rot, rotated>>

\* the log directory when the iteration begins: the zone of the machine, a
\* log file of an earlier run or none, and at most one rotated file, stamped
\* in local time when it was made
InitLogger ==
    /\ InitCommon
    /\ files = [f \in Files |-> NoFile]
    /\ config = [t \in TreeIds |-> DefaultConfig("")]
    /\ trees = [n \in Names |-> 0]
    /\ nTrees = 0
    /\ bootList = <<>>
    /\ runPc = "absent"
    /\ httpPc = "absent"
    /\ rotPc = "absent"
    /\ wPc = "absent"
    /\ logClock = 0
    /\ zone \in Zones
    /\ logActive \in {"none", "data"}
    /\ \E made \in (0 - MaxPast)..0, c \in {"none", "empty", "data"} :
          logSiblings = [l \in Stamps |-> IF l = FormatStamp(made) THEN c ELSE "none"]
    /\ sinkPc = "none"
    /\ sinkFile = "nil"
    /\ sinkOnPath = FALSE
    /\ handles = 0
    /\ rot = "idle"
    /\ rotated = "none"

NextLogger ==
    \/ SinkOpen
    \/ SinkWrite
    \/ SinkClose
    \/ RotateClose
    \/ RotateRename
    \/ RotatePrune
    \/ RotateOpen
    \/ RotateReturn
    \/ LogTick

SpecLogger == InitLogger /\ [][NextLogger]_vars

\* -------------------------------------------------------------------------
\* Properties of the run loop
\* -------------------------------------------------------------------------
Max(a, b) == IF a > b THEN a ELSE b

\* the Start invocation has returned and its TreeImpl is stopped
StoppedForGood(t) ==
    /\ LiveLoops(t) = {}
    /\ LiveChildren(t) = {}
    /\ currState[t] = StoppedState

\* C1: at most one child process of a record is alive at any instant.
C1_AtMostOneChild ==
    \A t \in TreeIds : Cardinality(LiveChildren(t)) <= 1

\* C2: a start() on a record whose run loop is running returns without
\* beginning a second run loop and without resetting run_count or full_stop.
C2_StartIdempotent ==
    [][\A l \in LoopIds :
          (/\ pc[l] = "new"
           /\ pc'[l] # "new"
           /\ RunningLoops(loopTree[l]) # {})
              => (/\ pc'[l] = "done"
                  /\ runCount' = runCount
                  /\ fullStop' = fullStop)]_vars

\* C3: once stop() has been called on a record after start(), and as long as
\* no later start() is issued, the child is eventually terminated, the run
\* loop eventually exits and the state becomes stopped.
C3_StopLeadsToStopped ==
    stopPending[TheTree] ~> (~stopPending[TheTree] \/ StoppedForGood(TheTree) \/ ctxDone)

\* C4: after the root context is cancelled Run eventually returns (a daemon
\* that panicked has ended as well).
C4_CancelLeadsToRunReturn ==
    ctxDone ~> (runPc = "returned" \/ panicked)

\* C5: when Run has returned, the control-plane server, the rotation task,
\* the watcher and every run loop have finished, and no child is alive.
C5_ReturnedMeansAllJoined ==
    runPc = "returned" =>
        (AllTasksDone /\ \A l \in LoopIds : rpc[l] = "none")

C5_Witness ==
    /\ runPc = "returned"
    /\ \E t \in TreeIds : spawns[t] > 0 /\ chanClosed[t]

\* C6: after the context handed to start() is cancelled the run loop
\* returns, and a reload() that holds the config lock always releases it.
C6_CancelLeadsToReturn ==
    /\ (ctxDone /\ pc[TheLoop] # "none") ~> (pc[TheLoop] = "done")
    /\ configWriter[TheTree] ~> ~configWriter[TheTree]

C6_Witness ==
    /\ ctxDone
    /\ pc[TheLoop] = "done"
    /\ restartMode[TheLoop] = AlwaysRestart
    /\ spawns[TheTree] >= 2
    /\ signalled[TheTree]

\* the step is the control-plane restart of n, whose current config has
\* restart_policy = never
RestartOfNever(n) ==
    /\ reqs' = reqs + 1
    /\ lastCall'.op = "restart"
    /\ lastCall'.name = n
    /\ trees[n] # 0
    /\ config[trees[n]].Restart = NeverRestart

\* C7: a control-plane restart on a record whose current config has
\* restart_policy = never returns an error, delivers no stop signal and
\* leaves the record's state, child, run_count and full_stop unchanged.
C7_RestartOnNeverRefused ==
    [][\A n \in Names :
          RestartOfNever(n)
              => (/\ lastCall'.result = "error"
                  /\ UNCHANGED <<stopChan, currState, runCount, fullStop, rpc, pc,
                                 iterCancelled, panicked>>)]_vars

C7_Witness ==
    /\ lastCall = Call("restart", "A", "error")
    /\ config[trees["A"]].Restart = NeverRestart
    /\ \E l \in LoopIds : loopTree[l] = trees["A"] /\ rpc[l] = "child"

\* C8 as stated: while the record's current restart_policy is never, also
\* when it became never through reload(), the loop launches no child after
\* the first one of the invocation.
C8_NeverPolicyNoRespawn ==
    [][\A l \in LoopIds :
          (/\ loopTree[l] # 0
           /\ config[loopTree[l]].Restart = NeverRestart
           /\ rpc[l] # "child"
           /\ rpc'[l] = "child") => spawns[loopTree[l]] = 0]_vars

\* C8 amended: a start() invocation that read restart_policy = never at its
\* entry launches at most one child.
C8_NeverAtEntrySpawnsOnce ==
    \A l \in LoopIds :
        (pc[l] \notin {"none", "new"} /\ restartMode[l] = NeverRestart) => spawns[loopTree[l]] <= 1

C8_Witness ==
    /\ pc[TheLoop] = "done"
    /\ restartMode[TheLoop] = NeverRestart
    /\ spawns[TheTree] = 1
    /\ signalled[TheTree]

C10_Scenario(l) ==
    /\ restartMode[l] = LimitedRestart
    /\ restartAttempts[l] >= 1
    /\ ~signalled[loopTree[l]]
    /\ ~prepFailed[l]
    /\ ~ctxDone

\* the run loop has exited after exactly N spawns, with the state stopped
C10_ExitedAfterN(l) ==
    /\ pc[l] = "done"
    /\ spawns[loopTree[l]] = restartAttempts[l]
    /\ currState[loopTree[l]] = StoppedState

\* C10: with restart_policy = limited, restart_attempts = N >= 1, a child
\* that always exits on its own and no stop or restart requested, the run
\* loop exits, and when it exits it has spawned exactly N children and the
\* state is stopped.
C10_LimitedSpawnsExactlyN ==
    /\ [](\A l \in LoopIds :
             (pc[l] = "done" /\ C10_Scenario(l)) => C10_ExitedAfterN(l))
    /\ (pc[TheLoop] \notin {"none", "done"} /\ C10_Scenario(TheLoop))
           ~> (~C10_Scenario(TheLoop) \/ C10_ExitedAfterN(TheLoop))

C10_Witness ==
    /\ pc[TheLoop] = "done"
    /\ C10_Scenario(TheLoop)
    /\ restartAttempts[TheLoop] = 2
    /\ spawns[TheTree] = 2

\* C11: every change of a record's state also updates last_change_at, so
\* status() reports the time of the most recent state transition.
C11_StampFollowsState ==
    \A t \in TreeIds : stampCurrent[t]

\* t.logger is open from NewRotatingFileWriter until run returns, which is
\* after its send on errChan has been received.  A run whose preparation
\* failed is counted as holding an open logger too, so the property below
\* asks for no more than the claim does.
LoggerOpen(t) ==
    \E l \in LoopIds : loopTree[l] = t /\ rpc[l] \in {"child", "send"}

\* C12: in every reachable state, state = running implies that a child of
\* the record is alive and that the record's log sink is open.
C12_RunningMeansChildAlive ==
    \A t \in TreeIds :
        currState[t] = RunningState => (LiveChildren(t) # {} /\ LoggerOpen(t))

\* C13: whenever start() returns, after a full stop, after the restart
\* policy's decision or after a cancellation during the pre-start delay, the
\* record's state is stopped.
C13_ReturnedMeansStopped ==
    [][\A l \in LoopIds :
          (pc[l] # "done" /\ pc'[l] = "done")
              => currState'[loopTree[l]] = StoppedState]_vars

\* the file whose admission a step performs, or "" when the step is no admission
AdmittedFile ==
    IF runPc = "boot" /\ bootList # <<>> /\ bootList' = Tail(bootList) THEN Head(bootList)
    ELSE IF wPc = "load" /\ wPc' = "select" THEN wFile
    ELSE ""

\* C14: the admission of a config file whose name is already in the registry
\* rejects the new config and leaves the existing record as it was: the
\* registry, the record's config, state, channels and loops do not change and
\* no loop is started.
C14_ConflictLeavesExisting ==
    [][\A f \in Files :
          (AdmittedFile = f /\ ~LoadConfig(files, f).err
                /\ trees[LoadConfig(files, f).cfg.Name] # 0)
              => UNCHANGED <<trees, nTrees, treeVars, loopVars>>]_vars

\* b.tree, which names "A", has been through admission while the record of
\* a.tree was registered, and the registry still holds a.tree's record
C14_Witness ==
    /\ files["b.tree"] # NoFile
    /\ ~LoadConfig(files, "b.tree").err
    /\ LoadConfig(files, "b.tree").cfg.Name = "A"
    /\ trees["A"] # 0
    /\ config[trees["A"]].OriginFile = "a.tree"
    /\ config[trees["A"]] # LoadConfig(files, "b.tree").cfg
    /\ runPc = "serving"
    /\ wPc = "select"
    /\ events = <<>>
    /\ \E l \in LoopIds : loopTree[l] = trees["A"] /\ rpc[l] = "child"

\* the records of the registry that were loaded from file f
RecordsOf(f) == {t \in Registered : config[t].OriginFile = f}

\* C15: once the config file of an admitted record is deleted and the watcher
\* has handled the remove event, the registry holds no record of that file
\* and no child of such a record is alive.
C15_RemovedMeansGone ==
    \A f \in Files :
        (files[f] = NoFile /\ wPc = "select" /\ events = <<>>)
            => /\ RecordsOf(f) = {}
               /\ \A t \in TreeIds : config[t].OriginFile = f => LiveChildren(t) = {}

\* the watcher has no event to take or to handle and no write batch to flush
SteadyState ==
    /\ runPc = "serving"
    /\ wPc = "select"
    /\ events = <<>>
    /\ updateQueue = {}

C17_LaunchUsesReloadedConfig ==
    [][/\ \A l \in LoopIds :
              (pc[l] \in {"top", "delay"} /\ pc'[l] = "wait")
                  => /\ ~configWriter[loopTree[l]]
                     /\ snap'[l] = Snapshot(config[loopTree[l]])
                     /\ config' = config
       /\ \A t \in TreeIds :
              (t <= nTrees /\ config'[t] # config[t])
                  => /\ config'[t] = LoadConfig(files, config[t].OriginFile).cfg
                     /\ stopChan'[t] > 0 \/ panicked']_vars

\* a child runs on the command of a config that a Reload stored after the
\* invocation had read its restart policy from the config before it
C17_Witness ==
    /\ rpc[TheLoop] = "child"
    /\ fsOps > 0
    /\ config[TheTree] = LoadConfig(files, "a.tree").cfg
    /\ restartMode[TheLoop] # config[TheTree].Restart
    /\ snap[TheLoop] = Snapshot(config[TheTree])
    /\ runCount[TheTree] > 1

\* C18: after a successful Reload of a record whose child is running, the old
\* child is terminated and a child is launched with the new configuration,
\* under every restart policy: the invocation of Start does not return with
\* that launch still owed unless a full stop or a cancellation intervened.
C18_ReloadRelaunches ==
    \A l \in LoopIds :
        (pc[l] = "done" /\ loopTree[l] # 0 /\ reloadPending[loopTree[l]])
            => (fullStop[loopTree[l]] \/ ctxDone \/ panicked)

\* C19: after Destroy has been called on a record no further operation is
\* accepted: a later Stop, Restart, Reload or Destroy on it delivers no
\* signal and completes without a fault.
C19_DestroyedIsInert ==
    \A t \in TreeIds : chanClosed[t] => ~panicked

\* the file has a line of the key
HasLine(lines, key) ==
    \E i \in 1..Len(lines) : Len(lines[i]) = 2 /\ lines[i][1] = key

\* the value of the file's line of the key
LineValue(lines, key) ==
    lines[CHOOSE i \in 1..Len(lines) : Len(lines[i]) = 2 /\ lines[i][1] = key][2]

\* C20: loading a config file stores each recognized key in its own field: a
\* file with Name, Command and User lines yields User equal to the User value
\* and Command equal to the Command value, whatever the order of the lines.
C20_UserAndCommandStored ==
    \A t \in 1..nTrees :
        LET lines == ContentTable[files[config[t].OriginFile]] IN
        (HasLine(lines, "Name") /\ HasLine(lines, "Command") /\ HasLine(lines, "User"))
            => /\ config[t].User = LineValue(lines, "User")
               /\ config[t].Command = LineValue(lines, "Command")

\* C21: a config file with no Command line, or with an empty Command value,
\* is rejected by validation and yields no record, whatever other recognized
\* keys it contains: every config a TreeImpl holds comes from a file with a
\* Command line of a non-empty value.
C21_NoCommandNoRecord ==
    \A t \in 1..nTrees :
        LET lines == ContentTable[files[config[t].OriginFile]] IN
        HasLine(lines, "Command") /\ LineValue(lines, "Command") # ""

\* C22: after every successful Rotate no sibling of the log path remains on
\* disk whose timestamp suffix, a local time, is older than now - maxAge.
C22_NoOldSiblingAfterRotate ==
    [][(rot = "return" /\ rot' = "idle" /\ rotated' = "ok")
          => \A l \in Stamps :
                logSiblings'[l] # "none" => ~(StampInstant(l) + MaxAgeDur < logClock')]_vars

\* C23: whenever Rotate returns successfully, w.file is an open handle on the
\* file at the log path, so that a following Write appends to the new active
\* file.
C23_RotateLeavesOpenHandle ==
    [][(rot = "return" /\ rot' = "idle" /\ rotated' = "ok")
          => (sinkFile' = "open" /\ sinkOnPath' /\ logActive' # "none")]_vars

\* C24: a stop signal delivered while no child is alive is absorbed: it does
\* not terminate a child launched later, and when that Stop set fullStop the
\* next Start still finds fullStop set.
C24_IdleSignalAbsorbed ==
    [][\A l \in LoopIds :
          /\ (pc[l] = "wait" /\ ~iterCancelled[l] /\ iterCancelled'[l]
                  /\ loopTree[l] # 0 /\ idleSignal[loopTree[l]])
                => rpc[l] # "child"
          /\ (pc[l] = "new" /\ pc'[l] = "top"
                  /\ fullStop[loopTree[l]] /\ idleSignal[loopTree[l]])
                => fullStop'[loopTree[l]]]_vars

\* the pre-start delay's select can be left before the timer fires: its only
\* case besides <-timer.C is <-ctx.Done()
DelayReadyBeforeTimer(l) == pc[l] = "delay" /\ ctxDone

\* C25: a restart signal delivered while the run loop is in its pre-start
\* delay aborts the delay: once the signal is delivered the loop can leave the
\* delay without waiting for the timer.
C25_SignalAbortsDelay ==
    [][\A l \in LoopIds :
          (pc[l] = "delay" /\ pc'[l] = "delay" /\ ~panicked'
              /\ stopChan[loopTree[l]] = 0 /\ stopChan'[loopTree[l]] = 1)
            => DelayReadyBeforeTimer(l)']_vars

\* C26: the stop signal is single-slot: at most one undelivered signal is
\* pending per record, and the send of Stop, Restart and Reload can always be
\* taken, whatever the channel holds (the new signal is coalesced).
C26_SingleSlotNeverBlocks ==
    /\ \A t \in TreeIds : stopChan[t] \in {0, 1}
    /\ \A t \in TreeIds : ENABLED SendStopSignal(t)

\* a child is running that has received nothing, while fullStop has been set
\* since the head of its iteration and the config replaced since its launch:
\* Stop and Reload both sent a signal and one value is pending
C26_Witness ==
    /\ rpc[TheLoop] = "child"
    /\ ~iterCancelled[TheLoop]
    /\ fullStop[TheTree]
    /\ snap[TheLoop] # Snapshot(config[TheTree])
    /\ stopChan[TheTree] = 1

\* C27: after Destroy has returned no further child of the record is spawned,
\* under every restart policy and also when Destroy comes between `go
\* t.Start(ctx)` and the first step of Start.
C27_NoSpawnAfterDestroy ==
    [][\A l \in LoopIds :
          (rpc[l] # "child" /\ rpc'[l] = "child") => ~chanClosed[loopTree[l]]]_vars

\* C28: a flush that handles a written file whose config names a service that
\* is not in the registry changes no record on account of that file and
\* leaves no read lock of the registry held.
C28_UnknownNameReleasesLock ==
    [][(wPc = "select" /\ updateQueue # {} /\ updateQueue' = {}
            /\ UpdateLeaks(updateQueue) # {})
          => /\ readers' = readers
             /\ \A t \in TreeIds \ UpdateTargets(updateQueue) :
                   config'[t] = config[t] /\ stopChan'[t] = stopChan[t]]_vars

\* C29: the midnight rotation task holds the read lock of the registry only
\* while it iterates: while it waits for the next midnight it holds none.
C29_RotatorWaitsUnlocked ==
    rotPc = "waiting" => rotHeld = 0

\* C30: each log sink is opened and closed within one run-loop iteration:
\* once the iteration has ended and no Rotate call is in progress, no file
\* handle that the iteration's sink opened is still open.
C30_NoHandleAfterIteration ==
    (sinkPc = "closed" /\ rot = "idle") => handles = 0

\* C31: write events are batched: a record is reloaded by the watcher only in
\* a flush and only for a path that has had a write event since the previous
\* flush, the flush reloads the record of every such path once, and it
\* leaves no path pending.
C31_FlushReloadsPendingOnce ==
    [][/\ \A t \in 1..nTrees :
             ((stopChan'[t] > stopChan[t] \/ config'[t] # config[t])
                  /\ chanClosed'[t] = chanClosed[t])
               => (t \in UpdateTargets(updateQueue) /\ updateQueue' = {})
       /\ (updateQueue # {} /\ updateQueue' = {})
             => \A t \in UpdateTargets(updateQueue) :
                   /\ config'[t] = IF ReloadLoads(t)
                                   THEN LoadConfig(files, config[t].OriginFile).cfg
                                   ELSE config[t]
                   /\ (ReloadLoads(t) /\ ~chanClosed[t]) => stopChan'[t] = 1]_vars

\* a single flush has handled two write events of the watched file
C31_Witness ==
    /\ batch.flushed = MaxWrites
    /\ updateQueue = {}
    /\ \E t \in 1..nTrees : signalled[t] /\ config[t].OriginFile \in WatchedFiles

\* C32: once the root context is cancelled the write events still in the
\* update queue are discarded: no flush reloads a record after the
\* cancellation.
C32_NoReloadAfterCancel ==
    [][(ctxDone /\ wPc = "select" /\ updateQueue # {} /\ updateQueue' = {})
          => /\ UpdateTargets(updateQueue) = {}
             /\ config' = config
             /\ stopChan' = stopChan
             /\ panicked' = panicked]_vars

\* the transitions of the lifecycle state machine
LifecycleSteps ==
    { <<StoppedState, RestartingState>>, <<RestartingState, RunningState>>,
      <<RunningState, RestartingState>>, <<RunningState, StoppedState>>,
      <<RestartingState, StoppedState>> }

\* C33: the state of a record changes only along the transitions of the
\* lifecycle state machine; in particular it never goes from stopped
\* directly to running.
C33_StateFollowsLifecycle ==
    [][\A t \in TreeIds :
          currState'[t] # currState[t]
            => <<currState[t], currState'[t]>> \in LifecycleSteps]_vars

\* the watcher is in loadTree for a create event of a valid config file
\* whose name is free
AdmittingFreeName ==
    /\ wPc = "load"
    /\ ~panicked
    /\ ~ctxDone
    /\ ~LoadConfig(files, wFile).err
    /\ trees[LoadConfig(files, wFile).cfg.Name] = 0
    /\ nTrees < MaxTrees

\* C34: for a create event of a valid config file whose name is free a
\* record is inserted under that name and its run loop is started: loadTree is
\* not kept from the registry by a lock that is held until shutdown.
C34_FreeNameIsAdmitted ==
    AdmittingFreeName => WriteLockFree

\* C35: within one Start invocation a child is launched only after the loop
\* has received the exit of the previous one from errChan, so a run loop
\* never has two run goroutines or two live children, whatever signals
\* arrive while a child is being cancelled.
C35_LaunchAfterExitReceived ==
    [][\A l \in LoopIds :
          (pc[l] \in {"top", "delay"} /\ pc'[l] = "wait") => rpc[l] = "none"]_vars

\* a second child is running in the invocation, it is being cancelled and
\* one more signal has arrived meanwhile
C35_Witness ==
    /\ pc[TheLoop] = "wait"
    /\ rpc[TheLoop] = "child"
    /\ spawns[TheTree] >= 2
    /\ iterCancelled[TheLoop]
    /\ stopChan[TheTree] = 1

C37_FailedReloadChangesNothing ==
    [][(configWriter[TheTree] /\ ~configWriter'[TheTree]
            /\ LoadConfig(files, config[TheTree].OriginFile).err)
          => /\ config' = config
             /\ stopChan' = stopChan
             /\ iterCancelled' = iterCancelled
             /\ panicked' = panicked]_vars

\* Reload holds the config lock over an origin file that does not load,
\* while the child of the record is running undisturbed
C37_Witness ==
    /\ configWriter[TheTree]
    /\ LoadConfig(files, config[TheTree].OriginFile).err
    /\ rpc[TheLoop] = "child"
    /\ ~iterCancelled[TheLoop]
    /\ stopChan[TheTree] = 0

\* C38: a write event for a file that is not the origin file of an admitted
\* record causes no reload and no restart: the records a flush reloads are
\* records whose origin file is in the update queue.
C38_OnlyOriginFileReloads ==
    [][(wPc = "select" /\ updateQueue # {} /\ updateQueue' = {})
          => \A t \in 1..nTrees :
                (t \in UpdateTargets(updateQueue)
                    \/ stopChan'[t] # stopChan[t] \/ config'[t] # config[t])
                  => config[t].OriginFile \in updateQueue]_vars

\* C39: each entry of the registry is keyed by the Name of the current config
\* of its record.
C39_KeyIsConfigName ==
    \A n \in Names : trees[n] # 0 => config[trees[n]].Name = n

\* C40: sink construction and rotation discard no log data younger than
\* maxAge: a rotated file that holds data and is not older than maxAge keeps
\* its data, and the data of the active file stays there or goes to a
\* rotated file that held none.
C40_YoungDataIsKept ==
    [][/\ \A l \in Stamps :
             (logSiblings[l] = "data" /\ ~(StampInstant(l) + MaxAgeDur < logClock'))
               => logSiblings'[l] = "data"
       /\ logActive = "data"
             => \/ logActive' = "data"
                \/ \E l \in Stamps : logSiblings[l] # "data" /\ logSiblings'[l] = "data"]_vars

====
